---- MODULE Spec2Model ----
(***************************************************************************)
(* Model of metalsmith-plugin-kit (lib/index.js): the middleware function  *)
(* returned by middleware(options), the callFunction adapter it uses for   *)
(* every hook, and the promise chain                                        *)
(*                                                                         *)
(*   callFunction(before).then(each phase).then(after).then(done, done)    *)
(*                                                                         *)
(* One behaviour is one call of the middleware function.  The hooks are    *)
(* user code: what a hook does (return, throw, call its callback now or    *)
(* later, never settle, add or delete files) is drawn from small sets.     *)
(* Promise reactions run from a FIFO job queue, one job per step.          *)
(***************************************************************************)
EXTENDS Integers, Sequences, FiniteSets, TLC

\* Number of distinct filenames a run can see.
NumFiles == 2

Names == 1..NumFiles

\* ---------------------------------------------------------------- values
\* Every JavaScript value of the model is a pair <<tag, n>>.
Undefined == <<"undefined", 0>>
Value == <<"value", 0>>
BeforeError == <<"beforeError", 0>>
AfterError == <<"afterError", 0>>
EachError(filename) == <<"eachError", filename>>

\* Values a hook can return, resolve with or hand to its callback. The chain
\* reads the value of after only; before and each yield undefined here.
Values == {Undefined, Value}
NoValues == {Undefined}

\* JavaScript truthiness, as tested by "if (err)": undefined, null and false
\* are falsy.
Truthy(x) == x[1] \notin {"undefined", "null"} /\ x # <<"boolean", 0>>

\* --------------------------------------------------------------- promises
NotCreated == [st |-> "none", v |-> Undefined]
Pending == [st |-> "pending", v |-> Undefined]
\* A pending promise whose hook will never settle it.
Hung == [st |-> "hung", v |-> Undefined]
Fulfilled(v) == [st |-> "fulfilled", v |-> v]
Rejected(e) == [st |-> "rejected", v |-> e]

Settled(p) == p.st \in {"fulfilled", "rejected"}
Unsettled(p) == p.st \in {"pending", "hung"}

\* ------------------------------------------------------------------ hooks
\* A hook of the definition: absent (null), or a function with a number of
\* declared parameters.
NoFn == [present |-> FALSE, length |-> 0]
Fn(n) == [present |-> TRUE, length |-> n]

\* Supplied arguments: (files, metalsmith) and (filename, file, files, metalsmith).
EndpointArgs == 2
EachArgs == 4

HookFns(nargs) == {Fn(nargs), Fn(nargs + 1)}

\* What one call of a hook does before it returns.
\*   throw     throws err
\*   return    returns v (not a thenable) and never calls a callback
\*   thenable  returns a promise that is settled later
\*   callback  calls the appended callback with (err, v) before returning
\*   later     returns; the appended callback is called later
Behaviour(kind, err, v) == [kind |-> kind, err |-> err, v |-> v]

Behaviours(fn, nargs, error, values) ==
    IF ~fn.present
    THEN {Behaviour("return", Undefined, Undefined)}
    ELSE IF fn.length > nargs
    THEN {Behaviour("throw", error, Undefined), Behaviour("later", Undefined, Undefined)}
         \cup {Behaviour("callback", e, v) : e \in {Undefined, error}, v \in values}
    ELSE {Behaviour("throw", error, Undefined), Behaviour("thenable", Undefined, Undefined)}
         \cup {Behaviour("return", Undefined, v) : v \in values}

\* The (err, result) callback callFunction appends.
NodeCallback(err, result) ==
    IF Truthy(err) THEN Rejected(err) ELSE Fulfilled(result)

\* The promise callFunction(fn, args) returns, as it stands when callFunction
\* returns, for a hook that behaves as b.
callFunction(fn, nargs, b) ==
    IF ~fn.present
    THEN Fulfilled(Undefined)
    ELSE IF fn.length > nargs
    THEN CASE b.kind = "throw" -> Rejected(b.err)
           [] b.kind = "callback" -> NodeCallback(b.err, b.v)
           [] OTHER -> Pending
    ELSE CASE b.kind = "throw" -> Rejected(b.err)
           [] b.kind = "return" -> Fulfilled(b.v)
           [] OTHER -> Pending

\* ------------------------------------------------------------------ files
\* The file collection, as the set of its keys. The filenames are the
\* strings "1", "2", ...: Object.keys() lists such keys in ascending order.
Has(fs, filename) == filename \in fs

NoEffect == <<"none", 0>>
Effects == {NoEffect} \cup {<<"delete", f>> : f \in Names} \cup {<<"add", f>> : f \in Names}

ApplyEffect(fs, eff) ==
    CASE eff[1] = "delete" -> fs \ {eff[2]}
      [] eff[1] = "add" -> fs \cup {eff[2]}
      [] OTHER -> fs

\* What a hook may do to the collection: an absent hook does nothing.
HookEffects(fn) == IF fn.present THEN Effects ELSE {NoEffect}

\* Object.keys(files)
RECURSIVE ObjectKeysFrom(_, _)
ObjectKeysFrom(fs, n) ==
    IF n > NumFiles THEN <<>>
    ELSE IF n \in fs THEN <<n>> \o ObjectKeysFrom(fs, n + 1)
    ELSE ObjectKeysFrom(fs, n + 1)

ObjectKeys(fs) == ObjectKeysFrom(fs, 1)

\* --------------------------------------------------------- hook arguments
\* The objects the middleware function is called with.
FilesObject == <<"files", 0>>
Metalsmith == <<"metalsmith", 0>>

Filename(filename) == <<"filename", filename>>

\* The file object stored under filename. rs is the set of filenames whose
\* object a call of each has stored since Object.keys(files) was taken.
FileObject(filename, rs) ==
    <<"file", 2 * filename + (IF filename \in rs THEN 1 ELSE 0)>>

\* A hook that adds or deletes a file changes what is stored under its name.
StoredBy(rs, eff) ==
    IF eff[1] \in {"add", "delete"} THEN rs \cup {eff[2]} ELSE rs

\* The (err, result) function callFunction appends for a callback style hook.
Callback == <<"callback", 0>>

\* The arguments fn is applied to by callFunction(fn, args).
Arguments(fn, args) ==
    IF fn.length > Len(args) THEN Append(args, Callback) ELSE args

\* What a hook can tell of its file argument: it is the object the
\* collection holds under the filename, files[filename], or it is not.
StoredFile == <<"stored file", 0>>
OtherFile == <<"other file", 0>>

\* The arguments of each as each sees them, fs being the collection and rs
\* the replaced file objects at the moment of the call.
Observed(args, fs, rs) ==
    [args EXCEPT ![2] = IF \E f \in fs : /\ args[1] = Filename(f)
                                         /\ @ = FileObject(f, rs)
                        THEN StoredFile ELSE OtherFile]

\* One application of a hook and the arguments it got.
Application(hook, args) == [hook |-> hook, args |-> args]

\* [files, metalsmith]
endpointArguments == <<FilesObject, Metalsmith>>

\* Mutant of eachArguments: the file object is the one the collection held
\* when Object.keys(files) was taken.
eachArgumentsAtKeys(filename, rs) ==
    <<Filename(filename), FileObject(filename, {}), FilesObject, Metalsmith>>

\* [filename, files[filename], files, metalsmith]
eachArguments(filename, rs) ==
    <<Filename(filename), FileObject(filename, rs), FilesObject, Metalsmith>>

\* ----------------------------------------------------------- callFunction
\* One call of callFunction(fn, args), followed step by step.
\* Number of arguments a caller supplies at most.
MaxArgs == 1

\* Number of times a callable invokes the callback it was given at most.
MaxInvocations == 2

Argument(i) == <<"argument", i>>

\* The optional args parameter: left out, or an array.
NoArgs == [given |-> FALSE, list |-> <<>>]
Args(n) == [given |-> TRUE, list |-> [i \in 1..n |-> Argument(i)]]
ArgLists == {NoArgs} \cup {Args(n) : n \in 0..MaxArgs}

\* Errors and values of user code: each is told apart from every other.
ThrownError == <<"thrown", 0>>
CallbackError(i) == <<"callbackError", i>>
CallbackValue(i) == <<"callbackValue", i>>
Thenable(k) == <<"thenable", k>>
ThenableValue(k) == <<"thenableValue", k>>
ThenableError(k) == <<"thenableError", k>>

\* The promise the callable returns and the promise it hands to the callback.
ReturnedThenable == Thenable(1)
PassedThenable == Thenable(2)
Thenables == {1, 2}

IsThenable(x) == x[1] = "thenable"

\* A promise resolved with a thenable that is not settled yet.
Following(x) == [st |-> "following", v |-> x]

\* Mutant of CallbackStyle: a callable with as many parameters as there are
\* arguments is given a callback as well.
CallbackStyleAtLeast(fn, args) == args.given /\ fn.length >= Len(args.list)

\* args && fn.length > args.length
CallbackStyle(fn, args) == args.given /\ fn.length > Len(args.list)

\* The arguments of fn.apply(null, args).
appliedArguments(fn, args) ==
    IF CallbackStyle(fn, args) THEN Append(args.list, Callback) ELSE args.list

\* reject(e) of a promise: nothing once the promise is resolved.
Reject(p, e) == IF p.st # "pending" THEN p ELSE Rejected(e)

\* Mutant of Resolve: a call of resolve settles the promise again.
ResolveAgain(p, x) == IF IsThenable(x) THEN Following(x) ELSE Fulfilled(x)

\* resolve(x) of a promise: nothing once the promise is resolved; a thenable
\* is followed, another value fulfils.
Resolve(p, x) ==
    IF p.st # "pending" THEN p
    ELSE IF IsThenable(x) THEN Following(x) ELSE Fulfilled(x)

\* A promise that follows a thenable takes its state once it is settled.
Adopt(p, ts) ==
    IF p.st = "following" /\ Settled(ts[p.v[2]]) THEN ts[p.v[2]] ELSE p

\* Mutant of callbackResult: the error argument is not looked at.
callbackResultNoError(p, err, result) == Resolve(p, result)

\* (err, result) => { if (err) reject(err); else resolve(result); }
callbackResult(p, err, result) ==
    IF Truthy(err) THEN Reject(p, err) ELSE Resolve(p, result)

\* Mutant of returned: the returned value fulfils the promise as it is.
returnedFulfils(style, p, result) ==
    IF style THEN p
    ELSE IF p.st # "pending" THEN p ELSE Fulfilled(result)

\* fn.apply(null, args) has returned result: callback style drops it, else
\* resolve(result).
returned(style, p, result) == IF style THEN p ELSE Resolve(p, result)

\* Mutant of executorThrows: the exception reaches the caller of callFunction.
executorThrowsUncaught(c, e) == [c EXCEPT !.caller = "threw"]

\* fn.apply throws inside the executor of new Promise: the promise is rejected.
executorThrows(c, e) == [c EXCEPT !.result = Reject(@, e)]

\* The state of one call: the callable and the arguments, the arguments the
\* callable was applied to, the promise, how callFunction came back to its
\* caller, what the callable did so far, the settlements of the promise and
\* the promises the callable made.
NewCall(fn, args) ==
    [fn |-> fn, args |-> args, phase |-> "idle", applied |-> <<>>,
     result |-> NotCreated, caller |-> "none", events |-> <<>>,
     settlements |-> 0, thenables |-> [k \in Thenables |-> Pending]]

NoCall == NewCall(NoFn, NoArgs)

\* How many settlements a change of the promise from p to q makes.
Settlements(p, q) ==
    IF Settled(q) /\ q # p THEN 1 ELSE 0

\* One thing the callable does: it invokes the callback, throws or returns.
Step(c, ev) ==
    LET style == CallbackStyle(c.fn, c.args)
        d == CASE ev.kind = "callback" ->
                    [c EXCEPT !.result = callbackResult(@, ev.err, ev.v)]
               [] ev.kind = "throw" -> executorThrows(c, ev.err)
               [] OTHER -> [c EXCEPT !.result = returned(style, @, ev.v)]
        q == Adopt(d.result, c.thenables)
    IN [d EXCEPT !.result = q,
                 !.events = Append(@, ev),
                 !.settlements = @ + Settlements(c.result, q)]

RECURSIVE Run(_, _)
Run(c, evs) == IF evs = <<>> THEN c ELSE Run(Step(c, Head(evs)), Tail(evs))

\* The i-th invocation of the callback: an error or none, and a value.
Invocation(i) ==
    {Behaviour("callback", e, v) :
        e \in {Undefined, CallbackError(i)},
        v \in {Undefined, CallbackValue(i), PassedThenable}}

\* How the callable ends its synchronous part.
Ends ==
    {Behaviour("throw", ThrownError, Undefined)}
    \cup {Behaviour("return", Undefined, v) : v \in {Undefined, Value, ReturnedThenable}}

\* The invocations of the callback a callable can make before it returns or
\* throws: none when it was given no callback.
SyncInvocations(style) ==
    IF ~style THEN {<<>>}
    ELSE UNION {{s \in [1..n -> UNION {Invocation(i) : i \in 1..n}] :
                    \A i \in 1..n : s[i] \in Invocation(i)} : n \in 0..MaxInvocations}

Invocations(c) == SelectSeq(c.events, LAMBDA ev : ev.kind = "callback")

\* The thenables the callable has made known: returned, or handed over.
Exposed(c) ==
    {k \in Thenables : \E i \in 1..Len(c.events) : c.events[i].v = Thenable(k)}

\* ---------------------------------------------------- clone, defaultOptions
\* Objects live in a heap: a sequence of cells, the address of an object
\* being its index. A value is a primitive or the reference of a cell.
\* Number of property names an object of the model can have.
NumKeys == 2

Keys == 1..NumKeys

NullValue == <<"null", 0>>
Number(n) == <<"number", n>>
Ref(a) == <<"ref", a>>

\* What a property that is not there reads as in a cell.
Absent == <<"absent", 0>>

\* A cell: a plain object, an array, a function, a RegExp or a Buffer, with
\* its own enumerable properties.
Cell(kind, props) == [kind |-> kind, props |-> props]
EmptyCell(kind) == Cell(kind, [k \in Keys |-> Absent])

IsRef(v) == v[1] = "ref"

\* !v
Falsy(v) == v[1] \in {"undefined", "null"}

\* typeof v
typeOf(h, v) ==
    IF IsRef(v) THEN (IF h[v[2]].kind = "function" THEN "function" ELSE "object")
    ELSE IF v = NullValue THEN "object"
    ELSE v[1]

\* Object.prototype.hasOwnProperty.call(object, key), object at address a
hasOwnProperty(h, a, k) == h[a].props[k] # Absent

\* object[k] = value, for a value r made in the heap r.heap and the object
\* at the address a.
Assigned(r, a, k) == [r.heap EXCEPT ![a].props[k] = r.value]

RECURSIVE clone(_, _)
RECURSIVE cloneKeys(_, _, _, _)

\* Mutant of cloneKeys: the values are assigned as they are, a shallow copy.
cloneKeysShallow(h, src, dst, k) ==
    [h EXCEPT ![dst].props = h[src].props]

\* The loop of clone over Object.keys(original), from key k on:
\* result[key] = clone(original[key]), original at src and result at dst.
cloneKeys(h, src, dst, k) ==
    IF k > NumKeys THEN h
    ELSE IF ~hasOwnProperty(h, src, k) THEN cloneKeys(h, src, dst, k + 1)
    ELSE cloneKeys(Assigned(clone(h, h[src].props[k]), dst, k), src, dst, k + 1)

\* Mutant of clone: the original is handed back, nothing is copied.
cloneSame(h, original) == [heap |-> h, value |-> original]

\* clone(original): the heap it leaves and the value it returns.
clone(h, original) ==
    IF Falsy(original) \/ typeOf(h, original) # "object"
    THEN [heap |-> h, value |-> original]
    ELSE IF h[original[2]].kind = "regexp"
    THEN [heap |-> h, value |-> original]
    ELSE LET result == Len(h) + 1
             kind == IF h[original[2]].kind = "array" THEN "array" ELSE "object"
         IN [heap |-> cloneKeys(Append(h, EmptyCell(kind)), original[2], result, 1),
             value |-> Ref(result)]

\* The loop of defaultOptions over Object.keys(override), from key k on: a
\* key the result has is set to the clone of the value of override.
RECURSIVE overrideKeys(_, _, _, _)
overrideKeys(h, src, dst, k) ==
    IF k > NumKeys THEN h
    ELSE IF ~hasOwnProperty(h, src, k) \/ ~hasOwnProperty(h, dst, k)
    THEN overrideKeys(h, src, dst, k + 1)
    ELSE overrideKeys(Assigned(clone(h, h[src].props[k]), dst, k), src, dst, k + 1)

\* defaultOptions(defaults, override): the heap it leaves and the value it
\* returns. defaults is an object.
defaultOptions(h, defaults, override) ==
    LET result == Len(h) + 1
        h1 == cloneKeys(Append(h, EmptyCell("object")), defaults[2], result, 1)
        h2 == IF ~Falsy(override) /\ typeOf(h1, override) = "object"
              THEN overrideKeys(h1, override[2], result, 1)
              ELSE h1
    IN [heap |-> h2, value |-> Ref(result)]

\* ------------------------------------------------------------ the inputs
\* An input is written as a tree and loaded into the heap, every object of
\* the tree into a cell of its own.
Leaf(kind, n) == [kind |-> kind, n |-> n, props |-> <<>>]
Composite(kind, props) == [kind |-> kind, n |-> 0, props |-> props]

\* An object whose every property holds x.
Full(kind, x) == Composite(kind, [k \in Keys |-> x])

AbsentT == Leaf("absent", 0)
UndefinedT == Leaf("undefined", 0)
NullT == Leaf("null", 0)
NumberT(n) == Leaf("number", n)
FunctionT == Leaf("function", 0)
RegExpT == Leaf("regexp", 0)

\* A Buffer: its own enumerable properties are its bytes.
BufferT == Full("buffer", NumberT(3))

IsPrimitiveT(t) == t.kind \in {"undefined", "null", "number", "string"}

RECURSIVE Load(_, _)
RECURSIVE LoadProps(_, _, _, _)

\* The properties of the tree t, from key k on, loaded into the object at
\* the address a of the heap h.
LoadProps(h, t, a, k) ==
    IF k > Len(t.props) \/ a > Len(h) THEN h
    ELSE IF t.props[k] = AbsentT THEN LoadProps(h, t, a, k + 1)
    ELSE LoadProps(Assigned(Load(h, t.props[k]), a, k), t, a, k + 1)

\* The heap with the tree t added, and the value t stands for.
Load(h, t) ==
    IF IsPrimitiveT(t) THEN [heap |-> h, value |-> <<t.kind, t.n>>]
    ELSE [heap |-> LoadProps(Append(h, EmptyCell(t.kind)), t, Len(h) + 1, 1),
          value |-> Ref(Len(h) + 1)]

\* Values found inside the inputs of clone.
Samples ==
    {UndefinedT, NullT, NumberT(1), FunctionT, RegExpT, BufferT,
     Full("object", NumberT(1)), Full("array", RegExpT),
     Full("object", Full("array", FunctionT))}

\* The objects of a kind whose properties are absent or hold one of values.
Composites(kind, values) ==
    {Composite(kind, props) : props \in [Keys -> values \cup {AbsentT}]}

\* The inputs of clone.
Originals ==
    Samples \cup Composites("object", Samples) \cup Composites("array", Samples)

\* The inputs of defaultOptions.
DefaultValues ==
    {NumberT(1), RegExpT, Full("object", Full("object", NumberT(1)))}

OverrideValues ==
    {UndefinedT, NumberT(2), FunctionT, BufferT, Full("array", NumberT(2))}

Defaults == Composites("object", DefaultValues)

Overrides ==
    {UndefinedT, NullT, NumberT(2), FunctionT, Full("array", NumberT(2))}
    \cup Composites("object", OverrideValues)

\* ------------------------------------------------------ what a heap holds
\* The addresses reachable from the value v.
RECURSIVE Reach(_, _)
Reach(h, v) ==
    IF ~IsRef(v) THEN {}
    ELSE {v[2]} \cup UNION {Reach(h, h[v[2]].props[k]) : k \in Keys}

IsPlain(h, a) == h[a].kind \in {"object", "array"}

\* The value v as a tree. A cell whose kind is in byReference stands as a
\* leaf that carries its address: it is told apart by what it is, not by
\* what it holds.
RECURSIVE Deep(_, _, _)
Deep(h, v, byReference) ==
    IF ~IsRef(v) THEN Leaf(v[1], v[2])
    ELSE IF h[v[2]].kind \in byReference THEN Leaf(h[v[2]].kind, v[2])
    ELSE Composite(h[v[2]].kind, [k \in Keys |-> Deep(h, h[v[2]].props[k], byReference)])

\* The state of one call of clone or defaultOptions: the heap, the inputs
\* and the result, with the heap as it was at the call and at the return, and
\* the side and the address of the object the caller changed afterwards.
NewCopy(op, loaded, inputs) ==
    [op |-> op, heap |-> loaded, inputs |-> inputs, result |-> Undefined,
     phase |-> "idle", called |-> loaded, returned |-> loaded,
     mutated |-> "none", target |-> 0]

NoCopy == NewCopy("clone", <<>>, <<Undefined>>)

\* clone(original) is about to be called.
CloneCall(t) ==
    LET r == Load(<<>>, t) IN NewCopy("clone", r.heap, <<r.value>>)

\* defaultOptions(defaults, override) is about to be called.
DefaultOptionsCall(d, o) ==
    LET r1 == Load(<<>>, d)
        r2 == Load(r1.heap, o)
    IN NewCopy("defaultOptions", r2.heap, <<r1.value, r2.value>>)

\* --------------------------------------------------------- filenameMatcher
\* Number of match items a list holds at most.
MaxItems == 2

False == <<"boolean", 0>>
True == <<"boolean", 1>>
Boolean(b) == IF b THEN True ELSE False

\* The contents of the file stored under filename.
Contents(filename) == <<"contents", filename>>

\* A match item. A string is a pattern and a RegExp an object with a test
\* method: accepts is the set of filenames the pattern matches, under the
\* matchOptions given, or the RegExp tests true for. A function is user code:
\* returns is what it returns for each filename.
StringItem(accepts) == [kind |-> "string", accepts |-> accepts, returns |-> <<>>]
RegExpItem(accepts) == [kind |-> "regexp", accepts |-> accepts, returns |-> <<>>]
FunctionItem(returns) == [kind |-> "function", accepts |-> {}, returns |-> returns]

\* What a function item can return.
MatchResults == {Undefined, False, Value}

\* The items tried: patterns that match no filename, the first one or all of
\* them, and functions that return one value for the first filename and one
\* for the others.
MatchItems ==
    {StringItem(s) : s \in {{}, {1}, Names}}
    \cup {RegExpItem(s) : s \in {{}, {NumFiles}}}
    \cup {FunctionItem([f \in Names |-> IF f = 1 THEN x ELSE y]) :
             x \in MatchResults, y \in MatchResults}

\* A matchList: one item, or an array of items.
Bare(item) == [array |-> FALSE, items |-> <<item>>]
List(items) == [array |-> TRUE, items |-> items]

MatchLists ==
    {Bare(item) : item \in MatchItems}
    \cup UNION {{List(items) : items \in [1..n -> MatchItems]} : n \in 0..MaxItems}

\* [].concat(match)
Concat(match) == match.items

\* One call of a compiled element: the item called and its arguments.
ItemCall(i, args) == [item |-> i, args |-> args]

\* The value a compiled element returns when it is called with args:
\* micromatch.matcher(pattern, options), the function itself, or
\* singleMatch.test.bind(singleMatch).
singleMatch(item, args) ==
    IF item.kind = "function" THEN item.returns[args[1][2]]
    ELSE Boolean(args[1][2] \in item.accepts)

\* Mutant of some: every element has to return a truthy value.
RECURSIVE every(_, _, _)
every(match, i, filename) ==
    IF i > Len(match) THEN [result |-> True, calls |-> <<>>]
    ELSE LET args == <<Filename(filename)>>
             rest == every(match, i + 1, filename)
         IN IF Truthy(singleMatch(match[i], args))
            THEN [rest EXCEPT !.calls = <<ItemCall(i, args)>> \o @]
            ELSE [result |-> False, calls |-> <<ItemCall(i, args)>>]

\* match.some((singleMatch) => singleMatch(filename)), from element i on:
\* the result and the calls made.
RECURSIVE some(_, _, _)
some(match, i, filename) ==
    IF i > Len(match) THEN [result |-> False, calls |-> <<>>]
    ELSE LET args == <<Filename(filename)>>
             rest == some(match, i + 1, filename)
         IN IF Truthy(singleMatch(match[i], args))
            THEN [result |-> True, calls |-> <<ItemCall(i, args)>>]
            ELSE [rest EXCEPT !.calls = <<ItemCall(i, args)>> \o @]

\* The function filenameMatcher(match, options) returns, called with
\* filename: the result and the calls of the elements it makes.
matchFunction(match, filename) ==
    LET list == Concat(match)
    IN IF Len(list) = 0 THEN [result |-> False, calls |-> <<>>]
       ELSE IF Len(list) = 1
       THEN LET args == <<Filename(filename)>>
            IN [result |-> singleMatch(list[1], args),
                calls |-> <<ItemCall(1, args)>>]
       ELSE some(list, 1, filename)

\* The state of one matcher: the matchList, whether filenameMatcher has
\* returned, and the last call of the function it returned.
NewMatcher(match) ==
    [match |-> match, phase |-> "idle", filename |-> 0, result |-> Undefined,
     calls |-> <<>>]

NoMatcher == NewMatcher(List(<<>>))

\* ---------------------------------------------------------------- addFile
\* Strings: texts, character encodings and file modes.
String(n) == <<"string", n>>
StringT(n) == Leaf("string", n)

\* The texts "1", "{}" and "null", which are also what JSON.stringify makes
\* of the number 1, of an object and of null.
NumberText == 1
ObjectText == 2
NullText == 3
\* "utf8" and "base64"
Utf8 == 4
Base64 == 5
\* "0644" and "1755"
DefaultMode == 6
OtherMode == 7
\* A text in quotes, as JSON.stringify makes it of a string.
Quoted(n) == 10 + n

\* The keys of the options of addFile.
EncodingKey == 1
ModeKey == 2

\* { encoding: "utf8", mode: "0644" }
addFileDefaults ==
    Composite("object", [k \in Keys |-> IF k = EncodingKey THEN StringT(Utf8)
                                        ELSE IF k = ModeKey THEN StringT(DefaultMode)
                                        ELSE AbsentT])

\* What the caller can pass as options: nothing, null, or an object that
\* has or has not an encoding and a mode, and another key when there is one.
AddFileOptions ==
    {UndefinedT, NullT}
    \cup {Composite("object", [k \in Keys |-> IF k = EncodingKey THEN e
                                              ELSE IF k = ModeKey THEN m
                                              ELSE StringT(OtherMode)]) :
            e \in {AbsentT, StringT(Base64)},
            m \in {AbsentT, StringT(OtherMode), UndefinedT}}

\* A Buffer: an object of its own that holds a text in an encoding.
Buffer(id, text, encoding) == [id |-> id, text |-> text, encoding |-> encoding]
NoBuffer == Buffer(0, Undefined, Undefined)

\* A file object.
File(id, contents, mode) == [id |-> id, contents |-> contents, mode |-> mode]
NoFile == File(0, NoBuffer, Undefined)

\* The objects there are before addFile is called: the file stored under a
\* filename, its contents, and the Buffer the caller passes.
StoredFileObject(filename) ==
    File(filename, Buffer(NumFiles + filename, String(NumberText), String(Utf8)),
         String(DefaultMode))
PassedBuffer == Buffer(2 * NumFiles + 1, String(ObjectText), String(Utf8))
Allocated == 2 * NumFiles + 1

\* What the caller can pass as contents.
AddFileContents ==
    {<<"buffer", 0>>, String(NumberText), String(ObjectText), Number(1),
     <<"object", 0>>, NullValue, Undefined, <<"function", 0>>}

\* JSON.stringify(value): undefined for undefined and for a function.
JSONstringify(value) ==
    CASE value[1] = "string" -> String(Quoted(value[2]))
      [] value[1] = "number" -> String(NumberText)
      [] value[1] = "object" -> String(ObjectText)
      [] value[1] = "null" -> String(NullText)
      [] OTHER -> Undefined

\* Mutant of textOf: a string goes through JSON.stringify as well.
textOfStringified(contents) == JSONstringify(contents)

\* if (typeof contents !== "string") contents = JSON.stringify(contents)
textOf(contents) ==
    IF contents[1] = "string" THEN contents ELSE JSONstringify(contents)

\* addFile(files, filename, contents, options), in the state s: the
\* collection, the heap that holds options, and the number of objects made
\* so far. Buffer.from throws for what is not a string.
addFile(s, filename, contents, options) ==
    LET d == Load(s.heap, addFileDefaults)
        o == defaultOptions(d.heap, d.value, options)
        encoding == o.heap[o.value[2]].props[EncodingKey]
        mode == o.heap[o.value[2]].props[ModeKey]
        text == textOf(contents)
    IN IF contents[1] = "buffer"
       THEN [s EXCEPT !.heap = o.heap,
                      !.files[filename] = File(s.allocated + 1, PassedBuffer, mode),
                      !.allocated = @ + 1]
       ELSE IF text[1] # "string"
       THEN [s EXCEPT !.heap = o.heap, !.threw = TRUE]
       ELSE [s EXCEPT !.heap = o.heap,
                      !.files[filename] =
                          File(s.allocated + 2,
                               Buffer(s.allocated + 1, text, encoding), mode),
                      !.allocated = @ + 2]

\* The state of one call of addFile: the arguments, the collection before
\* and after, and whether the call is over and how.
NewAddition(files, filename, contents, options) ==
    LET o == Load(<<>>, options)
    IN [files |-> files, heap |-> o.heap, allocated |-> Allocated, threw |-> FALSE,
        filename |-> filename, contents |-> contents, options |-> o.value,
        phase |-> "idle", called |-> files]

NoAddition == NewAddition([f \in Names |-> NoFile], 1, Undefined, UndefinedT)

\* ------------------------------------------------------------------ chain
\* Number of plugins chain(...) is given at most.
MaxPlugins == 2

\* Number of calls of the completion callback the plugins of one invocation
\* make at most, all together.
MaxCallbacks == 2

\* The first and the second invocation of the chained function.
Runs == {1, 2}

\* What invocation r is called with, and the runNext it makes.
ChainFiles(r) == <<"files", r>>
ChainMetalsmith(r) == <<"metalsmith", r>>
RunNext(r) == <<"runNext", r>>
PluginError(k) == <<"pluginError", k>>

\* What happens in an invocation: a plugin is invoked, a plugin calls the
\* completion callback it was given, done is called.
Event(kind, plugin, args) == [kind |-> kind, plugin |-> plugin, args |-> args]

\* Mutant of counterOf: the counter is a variable of chain, which every
\* invocation uses.
counterShared(r) == 1

\* The counter i that invocation r uses: its own.
counterOf(r) == r

\* Mutant of runNext: the error is not looked at.
runNextNoError(c, r, e) ==
    LET i == c.counters[counterOf(r)]
    IN IF c.n <= i
       THEN [c EXCEPT !.history[r] = Append(@, Event("done", 0, <<e>>))]
       ELSE [c EXCEPT !.counters[counterOf(r)] = i + 1,
                      !.history[r] =
                          Append(@, Event("invoke", i + 1,
                                          <<ChainFiles(r), ChainMetalsmith(r),
                                            RunNext(r)>>))]

\* runNext(e) of invocation r, in the state c.
runNext(c, r, e) ==
    LET i == c.counters[counterOf(r)]
    IN IF Truthy(e) \/ c.n <= i
       THEN [c EXCEPT !.history[r] = Append(@, Event("done", 0, <<e>>))]
       ELSE [c EXCEPT !.counters[counterOf(r)] = i + 1,
                      !.history[r] =
                          Append(@, Event("invoke", i + 1,
                                          <<ChainFiles(r), ChainMetalsmith(r),
                                            RunNext(r)>>))]

\* Mutant of chained: runNext() is called twice.
chainedTwice(c, r) ==
    runNext(runNext([c EXCEPT !.counters[counterOf(r)] = 0], r, Undefined),
            r, Undefined)

\* The function chain returned is called as invocation r: i = 0; runNext().
chained(c, r) ==
    runNext([c EXCEPT !.counters[counterOf(r)] = 0], r, Undefined)

\* Plugin k of invocation r calls the completion callback with e.
completion(c, r, k, e) ==
    runNext([c EXCEPT !.history[r] = Append(@, Event("callback", k, <<e>>))], r, e)

\* The events of a kind in a history.
Events(history, kind) == SelectSeq(history, LAMBDA ev : ev.kind = kind)

\* The state of a function chain returned: the number of plugins, the counter
\* of every invocation and what happened in it so far.
NewChain(n) ==
    [n |-> n, counters |-> [r \in Runs |-> 0], history |-> [r \in Runs |-> <<>>]]

NoChain == NewChain(0)

\* ------------------------------------------------- middleware(definition)
\* The properties of a definition the middleware function reads. An object
\* of the model has NumKeys properties, so a definition is followed with
\* NumKeys of them at a time, whichever they are.
Properties == <<"before", "each", "after", "match", "matchOptions">>
Hooks == {"before", "each", "after"}

\* Which property each key of the definition stands for.
Namings ==
    {names \in [Keys -> 1..Len(Properties)] :
        \A j, k \in Keys : j < k => names[j] < names[k]}

\* The glob "**/*"; another glob is StringT(1).
DefaultGlob == 0

\* The value the literal of defaults has for a property.
DefaultT(property) ==
    CASE property \in Hooks -> FunctionT
      [] property = "match" -> StringT(DefaultGlob)
      [] property = "matchOptions" -> Full("object", AbsentT)

\* Values a caller gives a property of the definition.
GivenT(property) ==
    CASE property \in Hooks -> {AbsentT, NullT, FunctionT}
      [] property = "match" ->
           {AbsentT, RegExpT, Full("array", StringT(1))}
      [] property = "matchOptions" ->
           {AbsentT, Full("object", AbsentT), Full("object", NumberT(1))}

Definitions(names) ==
    {Composite("object", props) :
        props \in {p \in [Keys -> UNION {GivenT(Properties[i]) : i \in 1..Len(Properties)}] :
                      \A k \in Keys : p[k] \in GivenT(Properties[names[k]])}}

\* Mutant of middleware: the definition itself is kept as the options.
middlewareKeepsDefinition(h, definition, names) ==
    [heap |-> h, options |-> definition]

\* options = defaultOptions({...}, options): the heap it leaves and the
\* options the closure of the middleware function holds.
middleware(h, definition, names) ==
    LET defaults == Load(h, Composite("object",
                                      [k \in Keys |-> DefaultT(Properties[names[k]])]))
        r == defaultOptions(defaults.heap, defaults.value, definition)
    IN [heap |-> r.heap, options |-> r.value]

\* options[property], undefined for a property the naming leaves out.
Option(h, options, names, property) ==
    IF \E k \in Keys : Properties[names[k]] = property
    THEN h[options[2]].props[CHOOSE k \in Keys : Properties[names[k]] = property]
    ELSE Undefined

\* What makes a value what it is for the matcher: a function and a RegExp are
\* the objects they are.
Content(h, v) == Deep(h, v, {"function", "regexp"})

\* filenameMatcher(options.match, options.matchOptions): [].concat(match) and
\* map() read the match items once, the matching library is handed the object
\* of the match options.
filenameMatcher(h, options, names) ==
    [match |-> Content(h, Option(h, options, names, "match")),
     matchOptions |-> Option(h, options, names, "matchOptions")]

\* What an invocation of the middleware function goes by, in the heap h: the
\* hooks it reads from options, the compiled match items and what the object
\* of the match options holds.
uses(h, options, matcherOf, names) ==
    [hooks |-> [k \in Keys |-> IF Properties[names[k]] \in Hooks
                               THEN h[options[2]].props[k] ELSE Undefined],
     match |-> matcherOf.match,
     matchOptions |-> Content(h, matcherOf.matchOptions)]

NoUses ==
    [hooks |-> [k \in Keys |-> Undefined],
     match |-> UndefinedT,
     matchOptions |-> UndefinedT]

\* The state of one middleware function and the definition it was made of.
NewCreation(names, loaded, definition) ==
    [names |-> names, heap |-> loaded, definition |-> definition,
     created |-> FALSE, options |-> Undefined,
     matcher |-> [match |-> UndefinedT, matchOptions |-> Undefined],
     fixed |-> NoUses, used |-> NoUses, invoked |-> FALSE]

NoCreation == NewCreation([k \in Keys |-> k], <<>>, Undefined)

\* middleware(definition) is about to be called.
CreationOf(names, t) ==
    LET r == Load(<<>>, t) IN NewCreation(names, r.heap, r.value)

VARIABLES
    options,      \* the effective definition: before, each, after
    matcher,      \* the compiled predicate, as the set of filenames it accepts
    files,        \* the file collection
    beforeResult, \* callFunction(options.before, ...)
    promises,     \* the array built by the each phase
    allResult,    \* Promise.all(promises), with its count of unsettled elements
    afterResult,  \* callFunction(options.after, ...)
    microtasks,   \* promise reaction jobs, first in first out
    doneCalls,    \* first argument of every call of done
    calls,        \* how often each hook was invoked
    eachFailures, \* the error of the first each invocation that failed, if any
    applied,      \* the applications made by the last step that applied a hook
    call,         \* one call of callFunction(fn, args), see NewCall
    mem,          \* one call of clone or defaultOptions, see NewCopy
    matching,     \* one use of filenameMatcher(match, options), see NewMatcher
    adding,       \* one call of addFile(files, filename, contents, options), see NewAddition
    chain,        \* a function chain(...) returned and its invocations, see NewChain
    creation      \* one middleware function and the definition it was made of

vars == <<options, matcher, files, beforeResult, promises, allResult, afterResult,
          microtasks, doneCalls, calls, eachFailures, applied, call,
          mem, matching, adding, chain, creation>>

\* The variables of the other functions of the module, which the middleware
\* function leaves alone.
utilityVars == <<call, mem, matching, adding, chain, creation>>

\* ------------------------------------------------------------------- jobs
Then1 == <<"then1", 0>>
Then2 == <<"then2", 0>>
Then3 == <<"then3", 0>>
Element(i) == <<"element", i>>

\* Mutant of Reaction: the job is queued without waiting for the promise.
ReactionEager(p, job) == <<job>>

\* promise.then(job): the job is queued once the promise is settled.
Reaction(p, job) == IF Settled(p) THEN <<job>> ELSE <<>>

\* How a pending hook can settle later: through the appended callback when
\* callFunction passed one, through the returned promise otherwise.
Outcomes(fn, nargs, error, values) ==
    IF fn.length > nargs
    THEN {NodeCallback(e, v) : e \in {Undefined, error}, v \in values}
    ELSE {Fulfilled(v) : v \in values} \cup {Rejected(error)}

\* Mutant of eachThen: the rejection of before is not passed on.
eachThenSwallows == [st |-> allResult.st, v |-> allResult.v]

\* The promise returned by the first .then(): rejected with before's error,
\* else it follows Promise.all(promises).
eachThen ==
    IF beforeResult.st = "rejected" THEN beforeResult
    ELSE [st |-> allResult.st, v |-> allResult.v]

\* The promise returned by the second .then(): rejected with the error of
\* the first, else it follows callFunction(options.after, ...).
afterThen ==
    IF eachThen.st = "rejected" THEN eachThen ELSE afterResult

\* ------------------------------------------------------------- each phase
\* The record of each failures: the error of the first one to occur.
Failure(failures, p) ==
    IF p.st = "rejected" /\ failures = <<>> THEN <<p.v>> ELSE failures

\* An element of the promises array, with the filename it was made for and
\* whether the record was in the collection when its turn came.
Entry(filename, p, present) ==
    [filename |-> filename, st |-> p.st, v |-> p.v, present |-> present]

Null == [st |-> "null", v |-> Undefined]

\* Mutant of matchedKeys: every filename is a key, in the collection or not.
matchedKeysOfAll(fs) == SelectSeq(ObjectKeys(Names), LAMBDA filename : filename \in matcher)

\* Object.keys(files).filter(matcher)
matchedKeys(fs) == SelectSeq(ObjectKeys(fs), LAMBDA filename : filename \in matcher)

\* What a call of each does for filename: the error it fails with, if it
\* fails, is the error of that filename.
ForFile(b, filename) ==
    [b EXCEPT !.err = IF Truthy(@) THEN EachError(filename) ELSE @]

\* Mutant of mapFilename: no check that the record is still there.
mapFilenameUnchecked(s, filename, c) ==
    LET p == callFunction(options.each, EachArgs, ForFile(c.b, filename))
    IN [files |-> ApplyEffect(s.files, c.eff),
        promises |-> Append(s.promises, Entry(filename, p, Has(s.files, filename))),
        calls |-> [s.calls EXCEPT !.each[filename] = @ + 1],
        eachFailures |-> Failure(s.eachFailures, p)]

\* The map callback for one filename; s carries the collection, the array
\* built so far and the call records. c is what this call of each does.
mapFilename(s, filename, c) ==
    IF ~Has(s.files, filename)
    THEN [s EXCEPT !.promises = Append(@, Entry(filename, Null, Has(s.files, filename)))]
    ELSE LET p == callFunction(options.each, EachArgs, ForFile(c.b, filename))
         IN [files |-> ApplyEffect(s.files, c.eff),
             promises |-> Append(s.promises, Entry(filename, p, Has(s.files, filename))),
             calls |-> [s.calls EXCEPT !.each[filename] = @ + 1],
             eachFailures |-> Failure(s.eachFailures, p)]

\* The applications of each the map callback makes over keys: fs is the
\* collection and rs the replaced file objects when the turn of keys[i] comes.
RECURSIVE eachApplications(_, _, _, _, _)
eachApplications(fs, rs, keys, i, choice) ==
    IF i > Len(keys) THEN <<>>
    ELSE IF ~Has(fs, keys[i]) THEN eachApplications(fs, rs, keys, i + 1, choice)
    ELSE <<Application("each",
                       Observed(Arguments(options.each, eachArguments(keys[i], rs)),
                                fs, rs))>>
         \o eachApplications(ApplyEffect(fs, choice[i].eff),
                             StoredBy(rs, choice[i].eff), keys, i + 1, choice)

\* Mutant of mapKeys: the next key waits for an invocation that is pending.
RECURSIVE mapKeysOneAtATime(_, _, _, _)
mapKeysOneAtATime(s, keys, i, choice) ==
    IF i > Len(keys) \/ (i > 1 /\ s.promises[i - 1].st = "pending") THEN s
    ELSE mapKeysOneAtATime(mapFilename(s, keys[i], choice[i]), keys, i + 1, choice)

\* Mutant of mapKeys: the keys after an invocation that failed are left out.
RECURSIVE mapKeysUntilFailure(_, _, _, _)
mapKeysUntilFailure(s, keys, i, choice) ==
    IF i > Len(keys) \/ (i > 1 /\ s.promises[i - 1].st = "rejected") THEN s
    ELSE mapKeysUntilFailure(mapFilename(s, keys[i], choice[i]), keys, i + 1, choice)

\* Object.keys(files).filter(...).map(...): the map callback for keys[i] and
\* the keys after it, whatever the calls before it did.
RECURSIVE mapKeys(_, _, _, _)
mapKeys(s, keys, i, choice) ==
    IF i > Len(keys) THEN s
    ELSE mapKeys(mapFilename(s, keys[i], choice[i]), keys, i + 1, choice)

\* What the calls of each can do, one choice per matched key.
EachChoices ==
    [b : Behaviours(options.each, EachArgs, EachError(0), NoValues),
     eff : HookEffects(options.each)]

\* Mutant of PromiseAll: the array is returned without Promise.all, so the
\* chain goes on at once.
PromiseAllNoWait(ps) == [st |-> "fulfilled", v |-> Undefined, remaining |-> 0]

\* Promise.all(promises) as it stands when it returns.
PromiseAll(ps) ==
    IF Len(ps) = 0
    THEN [st |-> "fulfilled", v |-> Undefined, remaining |-> 0]
    ELSE [st |-> "pending", v |-> Undefined, remaining |-> Len(ps)]

\* Mutant of ElementJobs: the null entries are left out.
ElementJobsNoNull(ps) ==
    SelectSeq([i \in 1..Len(ps) |-> Element(i)],
              LAMBDA job : ps[job[2]].st \in {"fulfilled", "rejected"})

\* The element reactions Promise.all can queue at once: those of the null
\* entries and of the promises already settled, in index order.
ElementJobs(ps) ==
    SelectSeq([i \in 1..Len(ps) |-> Element(i)],
              LAMBDA job : ps[job[2]].st \in {"null", "fulfilled", "rejected"})

\* Mutant of AllReaction: the last rejection wins.
AllReactionLast(all, p) ==
    IF p.st = "rejected"
    THEN [all EXCEPT !.st = "rejected", !.v = p.v]
    ELSE IF all.st # "pending" THEN all
    ELSE IF all.remaining = 1
    THEN [all EXCEPT !.st = "fulfilled", !.remaining = 0]
    ELSE [all EXCEPT !.remaining = @ - 1]

\* Mutant of AllReaction: the first fulfilled element fulfils the whole.
AllReactionFirst(all, p) ==
    IF all.st # "pending" THEN all
    ELSE IF p.st = "rejected"
    THEN [all EXCEPT !.st = "rejected", !.v = p.v]
    ELSE [all EXCEPT !.st = "fulfilled", !.remaining = 0]

\* One element reaction of Promise.all.
AllReaction(all, p) ==
    IF all.st # "pending" THEN all
    ELSE IF p.st = "rejected"
    THEN [all EXCEPT !.st = "rejected", !.v = p.v]
    ELSE IF all.remaining = 1
    THEN [all EXCEPT !.st = "fulfilled", !.remaining = 0]
    ELSE [all EXCEPT !.remaining = @ - 1]

\* Mutant of AllSettles: every element reaction after the settlement
\* continues the chain again.
AllSettlesAgain(old, new) == Reaction(new, Then2)

\* The job the settlement of Promise.all queues.
AllSettles(old, new) ==
    IF old.st = "pending" THEN Reaction(new, Then2) ELSE <<>>

\* First argument of the call of done made for the settled chain:
\* done.bind(null) is called with the value, done with the error.
DoneArgument(p) == p.v

Init ==
    /\ options \in [before : HookFns(EndpointArgs),
                    each : HookFns(EachArgs),
                    after : HookFns(EndpointArgs)]
    /\ matcher \in SUBSET Names
    /\ files \in SUBSET Names
    /\ beforeResult = NotCreated
    /\ promises = <<>>
    /\ allResult = [st |-> "none", v |-> Undefined, remaining |-> 0]
    /\ afterResult = NotCreated
    /\ microtasks = <<>>
    /\ doneCalls = <<>>
    /\ calls = [before |-> 0, each |-> [f \in Names |-> 0], after |-> 0]
    /\ eachFailures = <<>>
    /\ applied = <<>>
    /\ call = NoCall
    /\ mem = NoCopy
    /\ matching = NoMatcher
    /\ adding = NoAddition
    /\ chain = NoChain
    /\ creation = NoCreation

\* middlewareFn(files, metalsmith, done) is called: before runs.
middlewareFn ==
    /\ beforeResult = NotCreated
    /\ \E b \in Behaviours(options.before, EndpointArgs, BeforeError, NoValues),
          eff \in HookEffects(options.before) :
         /\ beforeResult' = callFunction(options.before, EndpointArgs, b)
         /\ files' = ApplyEffect(files, eff)
         /\ microtasks' = microtasks \o Reaction(beforeResult', Then1)
    /\ calls' = [calls EXCEPT !.before = @ + 1]
    /\ applied' = <<Application("before", Arguments(options.before, endpointArguments))>>
    /\ UNCHANGED utilityVars
    /\ UNCHANGED <<options, matcher, promises, allResult, afterResult, doneCalls,
                   eachFailures>>

\* The first .then() callback: the each phase, or the pass of before's error.
RunThen1 ==
    /\ microtasks # <<>> /\ Head(microtasks) = Then1
    /\ IF beforeResult.st = "rejected"
       THEN /\ microtasks' = Tail(microtasks) \o <<Then2>>
            /\ UNCHANGED <<files, promises, allResult, calls, eachFailures, applied>>
       ELSE LET keys == matchedKeys(files)
            IN \E choice \in [1..Len(keys) -> EachChoices] :
                 \E s \in {mapKeys([files |-> files, promises |-> <<>>,
                                     calls |-> calls, eachFailures |-> eachFailures],
                                    keys, 1, choice)} :
                    /\ files' = s.files
                    /\ promises' = s.promises
                    /\ calls' = s.calls
                    /\ eachFailures' = s.eachFailures
                    /\ applied' = eachApplications(files, {}, keys, 1, choice)
                    /\ allResult' = PromiseAll(s.promises)
                    /\ microtasks' = Tail(microtasks) \o ElementJobs(s.promises)
                                     \o Reaction(allResult', Then2)
    /\ UNCHANGED utilityVars
    /\ UNCHANGED <<options, matcher, beforeResult, afterResult, doneCalls>>

\* An element reaction of Promise.all runs.
RunElement ==
    /\ microtasks # <<>> /\ Head(microtasks)[1] = "element"
    /\ allResult' = AllReaction(allResult, promises[Head(microtasks)[2]])
    /\ microtasks' = Tail(microtasks) \o AllSettles(allResult, allResult')
    /\ UNCHANGED applied
    /\ UNCHANGED utilityVars
    /\ UNCHANGED <<options, matcher, files, beforeResult, promises, afterResult,
                   doneCalls, calls, eachFailures>>

\* The second .then() callback: after runs, or the error passes.
RunThen2 ==
    /\ microtasks # <<>> /\ Head(microtasks) = Then2
    /\ IF eachThen.st = "rejected"
       THEN /\ microtasks' = Tail(microtasks) \o <<Then3>>
            /\ UNCHANGED <<files, afterResult, calls, applied>>
       ELSE /\ \E b \in Behaviours(options.after, EndpointArgs, AfterError, Values),
                  eff \in HookEffects(options.after) :
                 /\ afterResult' = callFunction(options.after, EndpointArgs, b)
                 /\ files' = ApplyEffect(files, eff)
                 /\ microtasks' = Tail(microtasks) \o Reaction(afterResult', Then3)
            /\ calls' = [calls EXCEPT !.after = @ + 1]
            /\ applied' = <<Application("after",
                                        Arguments(options.after, endpointArguments))>>
    /\ UNCHANGED utilityVars
    /\ UNCHANGED <<options, matcher, beforeResult, promises, allResult, doneCalls,
                   eachFailures>>

\* The last .then(done.bind(null), done): done is called.
RunThen3 ==
    /\ microtasks # <<>> /\ Head(microtasks) = Then3
    /\ doneCalls' = Append(doneCalls, DoneArgument(afterThen))
    /\ microtasks' = Tail(microtasks)
    /\ UNCHANGED applied
    /\ UNCHANGED utilityVars
    /\ UNCHANGED <<options, matcher, files, beforeResult, promises, allResult,
                   afterResult, calls, eachFailures>>

\* The pending before hook settles.
SettleBefore ==
    /\ beforeResult = Pending
    /\ \E outcome \in Outcomes(options.before, EndpointArgs, BeforeError, NoValues) :
         beforeResult' = outcome
    /\ microtasks' = microtasks \o <<Then1>>
    /\ UNCHANGED applied
    /\ UNCHANGED utilityVars
    /\ UNCHANGED <<options, matcher, files, promises, allResult, afterResult,
                   doneCalls, calls, eachFailures>>

\* A pending each invocation settles.
SettleEach ==
    \E i \in 1..Len(promises) :
      /\ promises[i].st = "pending"
      /\ \E outcome \in Outcomes(options.each, EachArgs, EachError(promises[i].filename), NoValues) :
           /\ promises' = [promises EXCEPT ![i].st = outcome.st, ![i].v = outcome.v]
           /\ eachFailures' = Failure(eachFailures, outcome)
      /\ microtasks' = microtasks \o <<Element(i)>>
      /\ UNCHANGED applied
      /\ UNCHANGED utilityVars
      /\ UNCHANGED <<options, matcher, files, beforeResult, allResult, afterResult,
                     doneCalls, calls>>

\* The pending after hook settles.
SettleAfter ==
    /\ afterResult = Pending
    /\ \E outcome \in Outcomes(options.after, EndpointArgs, AfterError, Values) :
         afterResult' = outcome
    /\ microtasks' = microtasks \o <<Then3>>
    /\ UNCHANGED applied
    /\ UNCHANGED utilityVars
    /\ UNCHANGED <<options, matcher, files, beforeResult, promises, allResult,
                   doneCalls, calls, eachFailures>>

\* A pending hook turns out never to settle.
Hang ==
    /\ \/ /\ beforeResult = Pending
          /\ beforeResult' = Hung
          /\ UNCHANGED <<promises, afterResult>>
       \/ /\ \E i \in 1..Len(promises) :
               /\ promises[i].st = "pending"
               /\ promises' = [promises EXCEPT ![i].st = "hung"]
          /\ UNCHANGED <<beforeResult, afterResult>>
       \/ /\ afterResult = Pending
          /\ afterResult' = Hung
          /\ UNCHANGED <<beforeResult, promises>>
    /\ UNCHANGED applied
    /\ UNCHANGED utilityVars
    /\ UNCHANGED <<options, matcher, files, allResult, microtasks, doneCalls, calls,
                   eachFailures>>

\* The before hook, not settled yet, adds or deletes a file.
MutateFiles ==
    /\ beforeResult = Pending
    /\ \E eff \in Effects :
         /\ files' = ApplyEffect(files, eff)
         /\ files' # files
    /\ UNCHANGED applied
    /\ UNCHANGED utilityVars
    /\ UNCHANGED <<options, matcher, beforeResult, promises, allResult, afterResult,
                   microtasks, doneCalls, calls, eachFailures>>

RunMicrotask == RunThen1 \/ RunElement \/ RunThen2 \/ RunThen3

Next ==
    \/ middlewareFn
    \/ RunThen1
    \/ RunElement
    \/ RunThen2
    \/ RunThen3
    \/ SettleBefore
    \/ SettleEach
    \/ SettleAfter
    \/ Hang
    \/ MutateFiles

Spec == Init /\ [][Next]_vars

\* The event loop always runs a queued job.
LiveSpec == Spec /\ WF_vars(RunMicrotask)

\* The middleware function is called with an empty collection: every file
\* there is was added during the run.
EmptyInit == Init /\ files = {}

EmptySpec == EmptyInit /\ [][Next]_vars

\* ------------------------------------------------- callFunction, one call
\* The variables of the middleware function, which a call of callFunction
\* on its own leaves alone.
middlewareVars ==
    <<options, matcher, files, beforeResult, promises, allResult, afterResult,
      microtasks, doneCalls, calls, eachFailures, applied>>

MiddlewareIdle ==
    /\ options = [before |-> Fn(EndpointArgs), each |-> Fn(EachArgs),
                  after |-> Fn(EndpointArgs)]
    /\ matcher = {}
    /\ files = {}
    /\ beforeResult = NotCreated
    /\ promises = <<>>
    /\ allResult = [st |-> "none", v |-> Undefined, remaining |-> 0]
    /\ afterResult = NotCreated
    /\ microtasks = <<>>
    /\ doneCalls = <<>>
    /\ calls = [before |-> 0, each |-> [f \in Names |-> 0], after |-> 0]
    /\ eachFailures = <<>>
    /\ applied = <<>>

\* The variables a call of callFunction leaves alone.
besidesCall == <<middlewareVars, mem, matching, adding, chain, creation>>

CallInit ==
    /\ MiddlewareIdle
    /\ call \in {NewCall(fn, args) :
                    fn \in {NoFn} \cup {Fn(n) : n \in 0..(MaxArgs + 1)},
                    args \in ArgLists}
    /\ mem = NoCopy
    /\ matching = NoMatcher
    /\ adding = NoAddition
    /\ chain = NoChain
    /\ creation = NoCreation

\* callFunction(fn, args) is called and returns: the callable, if there is
\* one, has run up to its return or throw.
CallFunction ==
    /\ call.phase = "idle"
    /\ IF ~call.fn.present
       THEN call' = [call EXCEPT !.phase = "called",
                                 !.result = Fulfilled(Undefined),
                                 !.settlements = 1,
                                 !.caller = "returned"]
       ELSE \E invs \in SyncInvocations(CallbackStyle(call.fn, call.args)),
               end \in Ends :
              LET c == Run([call EXCEPT !.result = Pending,
                                        !.applied = appliedArguments(call.fn, call.args)],
                           Append(invs, end))
              IN call' = [c EXCEPT !.phase = "called",
                                   !.caller = IF @ = "threw" THEN @ ELSE "returned"]
    /\ UNCHANGED besidesCall

\* The callable invokes the callback after it has returned or thrown.
InvokeCallback ==
    /\ call.phase = "called"
    /\ call.fn.present
    /\ CallbackStyle(call.fn, call.args)
    /\ Len(Invocations(call)) < MaxInvocations
    /\ \E ev \in Invocation(Len(Invocations(call)) + 1) :
         call' = Step(call, ev)
    /\ UNCHANGED besidesCall

\* A promise the callable returned or handed to the callback settles.
SettleThenable ==
    /\ call.phase = "called"
    /\ \E k \in Exposed(call) :
         /\ call.thenables[k] = Pending
         /\ \E outcome \in {Fulfilled(ThenableValue(k)), Rejected(ThenableError(k))} :
              LET ts == [call.thenables EXCEPT ![k] = outcome]
                  q == Adopt(call.result, ts)
              IN call' = [call EXCEPT !.thenables = ts,
                                      !.result = q,
                                      !.settlements = @ + Settlements(call.result, q)]
    /\ UNCHANGED besidesCall

\* The callable has done all it will ever do.
Finish ==
    /\ call.phase = "called"
    /\ call' = [call EXCEPT !.phase = "done"]
    /\ UNCHANGED besidesCall

CallNext ==
    \/ CallFunction
    \/ InvokeCallback
    \/ SettleThenable
    \/ Finish

CallSpec == CallInit /\ [][CallNext]_vars

\* ------------------------------------- clone and defaultOptions, one call
\* The variables a call of clone or defaultOptions leaves alone.
besidesMem == <<middlewareVars, call, matching, adding, chain, creation>>

CopyInit ==
    /\ MiddlewareIdle
    /\ call = NoCall
    /\ mem \in {CloneCall(t) : t \in Originals}
               \cup {DefaultOptionsCall(d, o) : d \in Defaults, o \in Overrides}
    /\ matching = NoMatcher
    /\ adding = NoAddition
    /\ chain = NoChain
    /\ creation = NoCreation

\* clone(original) is called and returns.
Clone ==
    /\ mem.op = "clone" /\ mem.phase = "idle"
    /\ LET r == clone(mem.heap, mem.inputs[1])
       IN mem' = [mem EXCEPT !.heap = r.heap, !.returned = r.heap,
                             !.result = r.value, !.phase = "returned"]
    /\ UNCHANGED besidesMem

\* defaultOptions(defaults, override) is called and returns.
DefaultOptions ==
    /\ mem.op = "defaultOptions" /\ mem.phase = "idle"
    /\ LET r == defaultOptions(mem.heap, mem.inputs[1], mem.inputs[2])
       IN mem' = [mem EXCEPT !.heap = r.heap, !.returned = r.heap,
                             !.result = r.value, !.phase = "returned"]
    /\ UNCHANGED besidesMem

\* The roots of one side of the call: the inputs, or the result.
Roots(side) ==
    IF side = "result" THEN {mem.result}
    ELSE {mem.inputs[i] : i \in 1..Len(mem.inputs)}

\* The caller sets or deletes a property of an object it reaches from the
\* result, or from an input.
Mutate ==
    /\ mem.phase = "returned"
    /\ \E side \in {"result", "input"}, k \in Keys, v \in {Absent, Number(0)} :
         \E a \in UNION {Reach(mem.heap, root) : root \in Roots(side)} :
           /\ mem.heap[a].props[k] # v
           /\ mem' = [mem EXCEPT !.heap[a].props[k] = v,
                                 !.phase = "mutated", !.mutated = side,
                                 !.target = a]
    /\ UNCHANGED besidesMem

CopyNext ==
    \/ Clone
    \/ DefaultOptions
    \/ Mutate

CopySpec == CopyInit /\ [][CopyNext]_vars

\* ------------------------------------------------- filenameMatcher, one use
\* The variables this function leaves alone.
besidesMatching == <<middlewareVars, call, mem, adding, chain, creation>>

MatchInit ==
    /\ MiddlewareIdle
    /\ call = NoCall
    /\ mem = NoCopy
    /\ matching \in {NewMatcher(match) : match \in MatchLists}
    /\ adding = NoAddition
    /\ chain = NoChain
    /\ creation = NoCreation

\* filenameMatcher(match, options) is called and returns.
FilenameMatcher ==
    /\ matching.phase = "idle"
    /\ matching' = [matching EXCEPT !.phase = "compiled"]
    /\ UNCHANGED besidesMatching

\* The function filenameMatcher returned is called with a filename.
MatchFilename ==
    /\ matching.phase # "idle"
    /\ \E filename \in Names :
         LET r == matchFunction(matching.match, filename)
         IN matching' = [matching EXCEPT !.phase = "called",
                                         !.filename = filename,
                                         !.result = r.result,
                                         !.calls = r.calls]
    /\ UNCHANGED besidesMatching

MatchNext ==
    \/ FilenameMatcher
    \/ MatchFilename

MatchSpec == MatchInit /\ [][MatchNext]_vars

\* --------------------------------------------------------- addFile, one call
\* The variables this function leaves alone.
besidesAdding == <<middlewareVars, call, mem, matching, chain, creation>>

AddInit ==
    /\ MiddlewareIdle
    /\ call = NoCall
    /\ mem = NoCopy
    /\ matching = NoMatcher
    /\ adding \in {NewAddition(files0, filename, contents, o) :
                      files0 \in [Names -> {NoFile}]
                                 \cup {[f \in Names |-> IF f \in stored
                                                        THEN StoredFileObject(f)
                                                        ELSE NoFile] :
                                         stored \in SUBSET Names},
                      filename \in Names,
                      contents \in AddFileContents,
                      o \in AddFileOptions}
    /\ chain = NoChain
    /\ creation = NoCreation

\* addFile(files, filename, contents, options) is called and returns, or
\* throws.
AddFile ==
    /\ adding.phase = "idle"
    /\ adding' = [addFile(adding, adding.filename, adding.contents, adding.options)
                    EXCEPT !.phase = "over"]
    /\ UNCHANGED besidesAdding

AddNext ==
    \/ AddFile

AddSpec == AddInit /\ [][AddNext]_vars

\* ------------------------------------------------- chain, two invocations
\* The variables this function leaves alone.
besidesChain == <<middlewareVars, call, mem, matching, adding, creation>>

ChainInit ==
    /\ MiddlewareIdle
    /\ call = NoCall
    /\ mem = NoCopy
    /\ matching = NoMatcher
    /\ adding = NoAddition
    /\ chain \in {NewChain(n) : n \in 0..MaxPlugins}
    /\ creation = NoCreation

\* The chained function is called: the first plugin is invoked, or done when
\* there is no plugin.
Chained ==
    /\ \E r \in Runs :
         /\ chain.history[r] = <<>>
         /\ chain' = chained(chain, r)
    /\ UNCHANGED besidesChain

\* A plugin that was invoked calls the completion callback it was given, with
\* an error or without, while it runs or later.
Completion ==
    /\ \E r \in Runs, k \in 1..MaxPlugins :
       \E e \in {Undefined, PluginError(k)} :
         /\ \E p \in 1..Len(chain.history[r]) :
              /\ chain.history[r][p].kind = "invoke"
              /\ chain.history[r][p].plugin = k
         /\ Len(Events(chain.history[r], "callback")) < MaxCallbacks
         /\ chain' = completion(chain, r, k, e)
    /\ UNCHANGED besidesChain

ChainNext ==
    \/ Chained
    \/ Completion

ChainSpec == ChainInit /\ [][ChainNext]_vars

\* ---------------------------------- middleware(definition) and its callers
\* The variables this function leaves alone.
besidesCreation == <<middlewareVars, call, mem, matching, adding, chain>>

CreateInit ==
    /\ MiddlewareIdle
    /\ call = NoCall
    /\ mem = NoCopy
    /\ matching = NoMatcher
    /\ adding = NoAddition
    /\ chain = NoChain
    /\ creation \in UNION {{CreationOf(names, t) : t \in Definitions(names)} :
                             names \in Namings}

\* middleware(definition) is called and returns the middleware function.
Middleware ==
    /\ ~creation.created
    /\ LET r == middleware(creation.heap, creation.definition, creation.names)
           m == filenameMatcher(r.heap, r.options, creation.names)
       IN creation' = [creation EXCEPT
                         !.heap = r.heap, !.created = TRUE,
                         !.options = r.options, !.matcher = m,
                         !.fixed = uses(r.heap, r.options, m, creation.names)]
    /\ UNCHANGED besidesCreation

\* The caller replaces or removes a property of the definition, or sets a
\* property of an object or array a property of the definition holds.
MutateDefinition ==
    /\ creation.created
    /\ \E a \in Reach(creation.heap, creation.definition), k \in Keys :
         \E v \in (IF a = creation.definition[2]
                   THEN {Absent, Number(0)} ELSE {Number(0)}) :
           /\ IsPlain(creation.heap, a)
           /\ creation.heap[a].props[k] # v
           /\ creation' = [creation EXCEPT !.heap[a].props[k] = v]
    /\ UNCHANGED besidesCreation

\* The middleware function is invoked.
Invoke ==
    /\ creation.created
    /\ creation' = [creation EXCEPT
                      !.invoked = TRUE,
                      !.used = uses(creation.heap, creation.options,
                                    creation.matcher, creation.names)]
    /\ UNCHANGED besidesCreation

CreateNext ==
    \/ Middleware
    \/ MutateDefinition
    \/ Invoke

CreateSpec == CreateInit /\ [][CreateNext]_vars

\* ----------------------------------------------------------------- claims
Started == beforeResult.st # "none"
Completed == doneCalls # <<>>
EachPhaseRan == allResult.st # "none"
EachCalled(i) == promises[i].st # "null"
SomeEachCalled == \E i \in 1..Len(promises) : EachCalled(i)
SomeEachUnsettled == \E i \in 1..Len(promises) : Unsettled(promises[i])
SomeEachFailed == \E i \in 1..Len(promises) : promises[i].st = "rejected"
SomeEachHung == \E i \in 1..Len(promises) : promises[i].st = "hung"
SomeHookHung == beforeResult = Hung \/ afterResult = Hung \/ SomeEachHung
NoHookUnsettled ==
    ~Unsettled(beforeResult) /\ ~Unsettled(afterResult) /\ ~SomeEachUnsettled
Quiescent == Started /\ microtasks = <<>> /\ NoHookUnsettled
Successful ==
    /\ beforeResult.st = "fulfilled"
    /\ EachPhaseRan
    /\ \A i \in 1..Len(promises) : promises[i].st \in {"null", "fulfilled"}
    /\ afterResult.st = "fulfilled"

\* C1: in a successful run (before, every each invocation and after fulfil),
\* whatever value after fulfils with, done is called with an undefined first
\* argument.
C1_NoErrorArgumentOnSuccess ==
    (Successful /\ Completed) => doneCalls[1] = Undefined

C3_BeforeSettlesBeforeEach ==
    (SomeEachCalled \/ \E f \in Names : calls.each[f] > 0) => Settled(beforeResult)

C3_Witness ==
    /\ SomeEachCalled
    /\ options.before.length > EndpointArgs
    /\ beforeResult.st = "fulfilled"

\* C4: after is not invoked until every started each invocation has settled,
\* whatever the calling convention of each.
C4_AfterWaitsForEveryEach ==
    calls.after > 0 => ~SomeEachUnsettled

C4_Witness ==
    /\ calls.after > 0
    /\ Len(promises) = NumFiles
    /\ \A i \in 1..Len(promises) : promises[i].st = "fulfilled"
    /\ options.each.length > EachArgs

\* C5: if before fails, each and after are invoked zero times and done is
\* called with exactly the error of before.
C5_BeforeFailure ==
    beforeResult.st = "rejected" =>
        /\ \A f \in Names : calls.each[f] = 0
        /\ calls.after = 0
        /\ Completed => doneCalls = <<beforeResult.v>>
        /\ microtasks = <<>> => Completed

C5_Witness ==
    /\ beforeResult.st = "rejected"
    /\ doneCalls = <<BeforeError>>

\* C6: if an each invocation fails, after is never invoked and done is called
\* with the error of the first each failure to occur, not with the error of
\* another failing invocation.
C6_FirstEachFailure ==
    SomeEachFailed =>
        /\ calls.after = 0
        /\ Completed => doneCalls = <<eachFailures[1]>>
        /\ microtasks = <<>> => Completed

\* Two invocations failed, the one dispatched later first.
C6_Witness ==
    /\ Completed
    /\ \E i, j \in 1..Len(promises) :
         /\ i < j
         /\ promises[i].st = "rejected"
         /\ promises[j].st = "rejected"
         /\ doneCalls = <<promises[j].v>>

NoCallsOfEach == \A f \in Names : calls.each[f] = 0
PresentAtTurn(f) ==
    \E i \in 1..Len(promises) : promises[i].filename = f /\ promises[i].present

\* C7: once before has fulfilled and the each phase has run, each was invoked
\* exactly once for every filename that was a key of the collection, matches
\* and whose record was there when its turn came, and zero times for every
\* other filename; a matched filename whose record was removed is skipped
\* with a null entry, which is no failure.
C7_EachOncePerPresentMatch ==
    /\ [](~EachPhaseRan => NoCallsOfEach)
    /\ [](\A i \in 1..Len(promises) :
            ~promises[i].present => promises[i].st = "null")
    /\ [][(~EachPhaseRan /\ EachPhaseRan') =>
            /\ beforeResult.st = "fulfilled"
            /\ \A f \in Names :
                 calls'.each[f] =
                    IF f \in matcher /\ f \in files /\ PresentAtTurn(f)'
                    THEN 1 ELSE 0]_vars
    /\ [][EachPhaseRan => calls'.each = calls.each]_vars

\* A matched key was deleted by an earlier each invocation and the run
\* still succeeded.
C7_Witness ==
    /\ Successful
    /\ doneCalls = <<Undefined>>
    /\ \E i, j \in 1..Len(promises) :
         /\ i < j
         /\ promises[i].st = "fulfilled"
         /\ ~promises[j].present

\* C8: done is called at most once, and exactly once when every invoked hook
\* has settled and no reaction is left to run.
C8_CompletionOnce ==
    /\ Len(doneCalls) <= 1
    /\ Quiescent => Len(doneCalls) = 1

C8_Witness ==
    /\ Quiescent
    /\ Len(doneCalls) = 1
    /\ Cardinality({i \in 1..Len(promises) : promises[i].st = "rejected"}) >= 2

C10_CompletionReached ==
    []<>NoHookUnsettled => [](Started => <>Completed)

C10_Witness ==
    /\ Completed
    /\ afterResult.st = "rejected"
    /\ doneCalls = <<AfterError>>
    /\ options.after.length > EndpointArgs

\* --------------------------------------------------------------------- C11
\* What a hook documented to take the arguments args can be applied to: args,
\* followed by the callback when the hook is callback style.
DocumentedArguments(args) == {args, Append(args, Callback)}

\* The filenames each was called for, from the array of the each phase.
CalledFilenames ==
    LET called == SelectSeq(promises, LAMBDA entry : entry.st # "null")
    IN [i \in 1..Len(called) |-> Filename(called[i].filename)]

\* C11. Every hook is applied to the documented positional arguments: before
\* and after to (files, metalsmith), the very objects the middleware function
\* was called with; each to (filename, file, files, metalsmith), file being
\* the object stored under filename in the collection when each is called.
C11_HookArguments ==
    \A i \in 1..Len(applied) :
      IF applied[i].hook = "each"
      THEN /\ Len(applied) = Len(CalledFilenames)
           /\ applied[i].args \in
                DocumentedArguments(<<CalledFilenames[i], StoredFile,
                                      FilesObject, Metalsmith>>)
      ELSE applied[i].args \in DocumentedArguments(<<FilesObject, Metalsmith>>)

\* each was called for two filenames, each time with the stored file object.
C11_Witness ==
    /\ Len(applied) > 1
    /\ \A i \in 1..Len(applied) :
         /\ applied[i].hook = "each"
         /\ applied[i].args[2] = StoredFile

\* ---------------------------------------------------------------- C12-C16
Called == call.phase # "idle" /\ call.fn.present

\* The callable declares more parameters than there are supplied arguments.
DeclaresMore == call.fn.length > Len(call.args.list)

FirstInvocation == Invocations(call)[1]

ThrewFirst == call.events # <<>> /\ call.events[1].kind = "throw"

HasThrown == \E i \in 1..Len(call.events) : call.events[i].kind = "throw"

\* The value the callable returned, in a one element set, if it did return.
ReturnedValues ==
    {call.events[i].v : i \in {j \in 1..Len(call.events) : call.events[j].kind = "return"}}

\* The promise is what a pending promise becomes through the callback
\* invoked with (err, v).
Determined(err, v) ==
    IF Truthy(err) THEN call.result = Rejected(err)
    ELSE IF IsThenable(v) THEN call.result = Adopt(Following(v), call.thenables)
    ELSE call.result = Fulfilled(v)

\* C12. For a supplied argument list, the callable is given one more, final
\* argument, the (err, result) callback, exactly when it declares more
\* parameters than there are supplied arguments; otherwise it is applied to
\* the supplied arguments and nothing else.
C12_ConventionByArity ==
    Called /\ call.args.given =>
      /\ DeclaresMore => call.applied = Append(call.args.list, Callback)
      /\ ~DeclaresMore => call.applied = call.args.list
      /\ ~DeclaresMore => Invocations(call) = <<>>

\* A callable of two parameters got the one supplied argument and the callback.
C12_Witness ==
    /\ Called
    /\ call.fn.length = 2
    /\ call.args = Args(1)
    /\ call.applied = <<Argument(1), Callback>>

\* C13 as stated. For a callback style callable the result fails with the
\* error the callback is invoked with, if truthy, and else is fulfilled with
\* the value passed second; a returned value never decides.
C13_CallbackDecides ==
    Called /\ CallbackStyle(call.fn, call.args) =>
      /\ Invocations(call) # <<>> =>
           call.result = NodeCallback(FirstInvocation.err, FirstInvocation.v)
      /\ Invocations(call) = <<>> /\ ~HasThrown => call.result = Pending

\* C13, amended. For a callback style callable that did not throw before it
\* first invoked the callback, the result fails with the error of that
\* invocation, if truthy, and else is resolved with the value passed second:
\* fulfilled with it, or following it when it is a thenable. A returned value
\* never decides.
C13_FirstCallbackDecides ==
    Called /\ CallbackStyle(call.fn, call.args) =>
      /\ Invocations(call) # <<>> /\ ~ThrewFirst =>
           Determined(FirstInvocation.err, FirstInvocation.v)
      /\ Invocations(call) = <<>> /\ ~HasThrown => call.result = Pending

\* The callback got an error although the callable returned a promise, which
\* was fulfilled since.
C13_Witness ==
    /\ Called /\ CallbackStyle(call.fn, call.args)
    /\ ReturnedValues = {ReturnedThenable}
    /\ call.thenables[1] = Fulfilled(ThenableValue(1))
    /\ call.result = Rejected(CallbackError(1))

\* C14 as stated. The result of every call is settled exactly once, and by
\* the first of several invocations of the callback.
C14_SettledExactlyOnce ==
    /\ call.phase = "done" => call.settlements = 1
    /\ call.settlements <= 1
    /\ Called /\ Len(Invocations(call)) > 1 =>
         Determined(FirstInvocation.err, FirstInvocation.v)

\* C14, amended. The result of every call is settled at most once: a
\* callable that never invokes its callback leaves it unsettled. When a
\* callable that did not throw first invokes the callback several times, the
\* first invocation decides, and no step changes a settled result.
C14_SettledAtMostOnce ==
    /\ [](/\ call.settlements <= 1
          /\ call.settlements = 1 <=> Settled(call.result)
          /\ Called /\ Len(Invocations(call)) > 1 /\ ~ThrewFirst =>
               Determined(FirstInvocation.err, FirstInvocation.v))
    /\ [][Settled(call.result) => call.result' = call.result]_vars

\* The callback was invoked with an error, then with a value: the error stays.
C14_Witness ==
    /\ Len(Invocations(call)) = 2
    /\ ~Truthy(Invocations(call)[2].err)
    /\ call.settlements = 1
    /\ call.result = Rejected(CallbackError(1))

C16_DirectFollowsReturn ==
    Called /\ ~CallbackStyle(call.fn, call.args) =>
      \A v \in ReturnedValues :
        IF IsThenable(v)
        THEN call.result = Adopt(Following(v), call.thenables)
        ELSE call.result = Fulfilled(v)

\* The returned promise was rejected, and so is the result.
C16_Witness ==
    /\ Called /\ ~CallbackStyle(call.fn, call.args)
    /\ ReturnedValues = {ReturnedThenable}
    /\ call.result = Rejected(ThenableError(1))

\* --------------------------------------------------------------- C17..C20
\* Objects clone is documented to hand over as they are.
Specialty == {"function", "regexp", "buffer"}

\* defaultOptions, or clone, has returned.
Returned(op) == mem.op = op /\ mem.phase # "idle"

\* The own keys of the object at address a.
OwnKeys(h, a) == {k \in Keys : hasOwnProperty(h, a, k)}

\* override is an object that defines key k.
Defines(h, override, k) ==
    /\ IsRef(override)
    /\ typeOf(h, override) = "object"
    /\ hasOwnProperty(h, override[2], k)

\* The value v of the heap h and the value w of the heap g are the same value:
\* equal in structure, with the same primitives and the same specialty objects.
SameValue(h, v, g, w) == Deep(h, v, Specialty) = Deep(g, w, Specialty)

\* C17. defaultOptions(defaults, override) returns an object whose keys are
\* exactly the keys of defaults; each key holds the value of override when
\* override is an object that defines the key and the value of defaults
\* otherwise, so a key only override has is not in the result and a missing or
\* non-object override gives a copy of defaults.
C17_MergeByKey ==
    Returned("defaultOptions") =>
      LET h == mem.returned
          defaults == mem.inputs[1]
          override == mem.inputs[2]
      IN /\ OwnKeys(h, mem.result[2]) = OwnKeys(h, defaults[2])
         /\ \A k \in OwnKeys(h, defaults[2]) :
              SameValue(h, h[mem.result[2]].props[k],
                        mem.called,
                        IF Defines(h, override, k)
                        THEN mem.called[override[2]].props[k]
                        ELSE mem.called[defaults[2]].props[k])

\* The objects reachable from the inputs, and from the result.
InputObjects(h) == UNION {Reach(h, mem.inputs[i]) : i \in 1..Len(mem.inputs)}
ResultObjects(h) == Reach(h, mem.result)

\* The inputs, and the result, as trees: everything they hold.
InputsHeld(h) == [i \in 1..Len(mem.inputs) |-> Deep(h, mem.inputs[i], {})]
ResultHeld(h) == Deep(h, mem.result, {})

\* The caller has changed a plain object or array of the given side.
MutatedPlain(side) ==
    /\ mem.phase = "mutated"
    /\ mem.mutated = side
    /\ IsPlain(mem.returned, mem.target)

\* C18. defaultOptions leaves defaults and override as they were, the result
\* shares no plain object or array with either of them at any depth, and so
\* a later change of a plain object or array of the result changes nothing in
\* defaults or override, and a change of one of theirs nothing in the result.
C18_InputsUntouchedAndUnshared ==
    Returned("defaultOptions") =>
      /\ \A a \in 1..Len(mem.called) : mem.returned[a] = mem.called[a]
      /\ \A a \in ResultObjects(mem.returned) \cap InputObjects(mem.returned) :
           ~IsPlain(mem.returned, a)
      /\ MutatedPlain("result") => InputsHeld(mem.heap) = InputsHeld(mem.returned)
      /\ MutatedPlain("input") => ResultHeld(mem.heap) = ResultHeld(mem.returned)

\* override holds an array under a key of defaults, and the caller has changed
\* the array the result holds under that key.
C18_Witness ==
    /\ Returned("defaultOptions")
    /\ IsRef(mem.inputs[2])
    /\ \E k \in Keys :
         /\ Defines(mem.called, mem.inputs[2], k)
         /\ IsRef(mem.called[mem.inputs[2][2]].props[k])
         /\ mem.called[mem.called[mem.inputs[2][2]].props[k][2]].kind = "array"
         /\ MutatedPlain("result")
         /\ mem.returned[mem.result[2]].props[k] = Ref(mem.target)

\* No Buffer is reachable from the original.
BuiltFromPlain(h, v) == \A a \in Reach(h, v) : h[a].kind # "buffer"

\* C19. For an original built from plain objects, arrays, primitives,
\* functions and regular expressions, clone returns a value equal in
\* structure to the original, in which every object and array is a new one,
\* none of the original's, and every primitive, function and regular
\* expression is the one of the original.
C19_DeepCopy ==
    (Returned("clone") /\ BuiltFromPlain(mem.called, mem.inputs[1])) =>
      /\ SameValue(mem.returned, mem.result, mem.called, mem.inputs[1])
      /\ \A a \in ResultObjects(mem.returned) :
           IsPlain(mem.returned, a) => a \notin 1..Len(mem.called)
      /\ \A a \in 1..Len(mem.called) : mem.returned[a] = mem.called[a]

\* The original holds an object that holds an array that holds a function.
C19_Witness ==
    /\ Returned("clone")
    /\ BuiltFromPlain(mem.called, mem.inputs[1])
    /\ IsRef(mem.inputs[1])
    /\ mem.result # mem.inputs[1]
    /\ \E a, b, c \in InputObjects(mem.called), j, k, l \in Keys :
         /\ mem.called[mem.inputs[1][2]].props[j] = Ref(a)
         /\ mem.called[a].kind = "object"
         /\ mem.called[a].props[k] = Ref(b)
         /\ mem.called[b].kind = "array"
         /\ mem.called[b].props[l] = Ref(c)
         /\ mem.called[c].kind = "function"

\* C20. clone hands over every Buffer, like every function and regular
\* expression, as the same reference, wherever it is in the original: the
\* result never holds a copy in its place.
C20_SpecialtyByReference ==
    Returned("clone") =>
      SameValue(mem.returned, mem.result, mem.called, mem.inputs[1])

\* --------------------------------------------------------------- C21, C22
\* The function filenameMatcher returned has been called.
Matched == matching.phase = "called"

\* The items of the matchList, one for a bare item.
Elements == matching.match.items

\* What the predicate of element i returns for the filename, asked on its own.
ElementResult(i, filename) == singleMatch(Elements[i], <<Filename(filename)>>)

\* C21. The function filenameMatcher returns gives a truthy result for a
\* filename if and only if the predicate of at least one element gives a
\* truthy result for it; for an empty list it gives false, and for a bare
\* item what it gives for the list of that item alone.
C21_AnyElementMatches ==
    Matched =>
      /\ Truthy(matching.result)
           <=> \E i \in 1..Len(Elements) : Truthy(ElementResult(i, matching.filename))
      /\ Len(Elements) = 0 => matching.result = False
      /\ ~matching.match.array =>
           matching.result = matchFunction(List(Elements), matching.filename).result

\* A list of two items was asked: the first says no and the second yes.
C21_Witness ==
    /\ Matched
    /\ matching.match.array
    /\ Len(Elements) = 2
    /\ ~Truthy(ElementResult(1, matching.filename))
    /\ Truthy(ElementResult(2, matching.filename))
    /\ matching.result = True

\* C22. Whenever the compiled predicate consults a function item, the
\* function is called with the filename as its first and the contents of the
\* file as its second argument.
C22_FunctionGetsFilenameAndContents ==
    Matched =>
      \A c \in 1..Len(matching.calls) :
        Elements[matching.calls[c].item].kind = "function" =>
          matching.calls[c].args = <<Filename(matching.filename),
                                     Contents(matching.filename)>>

\* --------------------------------------------------------------------- C23
\* addFile has returned.
Added == adding.phase = "over" /\ ~adding.threw

\* The objects there were when addFile was called.
ObjectsBefore == 1..Allocated

\* What options gives for a key, if options is an object that has the key.
Given(key) ==
    IF IsRef(adding.options) /\ hasOwnProperty(adding.heap, adding.options[2], key)
    THEN adding.heap[adding.options[2]].props[key]
    ELSE Absent

OrDefault(given, default) == IF given = Absent THEN default ELSE given

\* The text addFile is documented to encode: the string, or the JSON
\* serialization of another value.
DocumentedText ==
    IF adding.contents[1] = "string" THEN adding.contents
    ELSE JSONstringify(adding.contents)

\* C23. After addFile(files, filename, contents, options), files[filename] is
\* a new file object: its contents is the Buffer passed, or a Buffer that
\* holds the string or the JSON serialization in the encoding of options,
\* its mode is options.mode, or "0644" when options gives none; what was
\* stored under filename is replaced and every other entry is as before.
C23_AddFileStores ==
    Added =>
      LET file == adding.files[adding.filename]
      IN /\ file.id \notin ObjectsBefore
         /\ IF adding.contents[1] = "buffer"
            THEN file.contents = PassedBuffer
            ELSE /\ file.contents.id \notin ObjectsBefore
                 /\ file.contents.text = DocumentedText
                 /\ file.contents.encoding = OrDefault(Given(EncodingKey), String(Utf8))
         /\ file.mode = OrDefault(Given(ModeKey), String(DefaultMode))
         /\ \A f \in Names \ {adding.filename} : adding.files[f] = adding.called[f]

\* A string was added in base64 with a mode of its own, over a stored file
\* and next to another one.
C23_Witness ==
    /\ Added
    /\ adding.contents[1] = "string"
    /\ Given(EncodingKey) = String(Base64)
    /\ Given(ModeKey) = String(OtherMode)
    /\ adding.called[adding.filename] # NoFile
    /\ \E f \in Names \ {adding.filename} : adding.called[f] # NoFile

\* ---------------------------------------------------------- C24, C25, C30
\* Event p of the history h: plugin k is invoked, or done is called.
IsInvoke(h, p, k) == h[p].kind = "invoke" /\ h[p].plugin = k
IsDone(h, p) == h[p].kind = "done"

\* Event p of the history h: a plugin calls the completion callback with an
\* error, or without.
IsFailure(h, p) == h[p].kind = "callback" /\ Truthy(h[p].args[1])
IsSuccess(h, p) == h[p].kind = "callback" /\ ~Truthy(h[p].args[1])

\* Plugin k has called the completion callback without an error before
\* event p.
CompletedBefore(h, p, k) ==
    \E q \in 1..(p - 1) : IsSuccess(h, q) /\ h[q].plugin = k

\* No plugin has called the completion callback twice before event p.
OnceBefore(h, p) ==
    \A q1, q2 \in 1..(p - 1) :
      (q1 < q2 /\ h[q1].kind = "callback" /\ h[q2].kind = "callback")
        => h[q1].plugin # h[q2].plugin

\* The plugins of invocation r are invoked in the order of the arguments, each
\* with the files, the metalsmith and the runNext of the invocation.
InOrder(r) ==
    LET invokes == Events(chain.history[r], "invoke")
    IN \A j \in 1..Len(invokes) :
         /\ invokes[j].plugin = j
         /\ invokes[j].args = <<ChainFiles(r), ChainMetalsmith(r), RunNext(r)>>

\* Event p of invocation r comes after what the chain waits for: plugin k + 1
\* after plugin k has called back without an error, done without an error
\* after the last plugin has, or at once when there is no plugin.
Awaited(r, p) ==
    LET h == chain.history[r]
    IN /\ \A k \in 1..(chain.n - 1) : IsInvoke(h, p, k + 1) => CompletedBefore(h, p, k)
       /\ (IsDone(h, p) /\ ~Truthy(h[p].args[1])) =>
            IF chain.n = 0 THEN p = 1 ELSE CompletedBefore(h, p, chain.n)

\* C24, as stated. The plugins are invoked one at a time in the order of the
\* arguments, each with the same (files, metalsmith): plugin k + 1 only after
\* plugin k has called its completion callback without an error, and done
\* without an error only after the last plugin has, at once when there is none.
C24_OneAtATime ==
    \A r \in Runs :
      /\ InOrder(r)
      /\ \A p \in 1..Len(chain.history[r]) : Awaited(r, p)

\* C24, amended. The same, as long as no plugin of the invocation has called
\* its completion callback a second time.
C24_OneAtATimeWhileCalledOnce ==
    \A r \in Runs :
      /\ InOrder(r)
      /\ \A p \in 1..Len(chain.history[r]) :
           OnceBefore(chain.history[r], p) => Awaited(r, p)

\* Two plugins ran one after the other, and done was called without an error.
C24_Witness ==
    \E r \in Runs :
      LET h == chain.history[r]
      IN /\ chain.n = 2
         /\ Len(h) = 5
         /\ IsInvoke(h, 1, 1) /\ IsSuccess(h, 2) /\ IsInvoke(h, 3, 2)
         /\ IsSuccess(h, 4) /\ h[4].plugin = 2
         /\ IsDone(h, 5) /\ ~Truthy(h[5].args[1])

\* After event p of invocation r, a failure, done is called with the error
\* and no plugin is invoked any more.
Stopped(r, p) ==
    LET h == chain.history[r]
    IN IsFailure(h, p) =>
         /\ Len(h) > p /\ IsDone(h, p + 1) /\ h[p + 1].args = h[p].args
         /\ \A q \in (p + 1)..Len(h) : h[q].kind # "invoke"

Quiet(r) ==
    LET h == chain.history[r]
    IN /\ h # <<>>
       /\ OnceBefore(h, Len(h) + 1)
       /\ \A p \in 1..Len(h) :
            /\ ~IsFailure(h, p)
            /\ h[p].kind = "invoke" => CompletedBefore(h, Len(h) + 1, h[p].plugin)

\* What invocation r does when it is the only invocation of the chained
\* function and its plugins call back as the sequence callbacks tells.
RECURSIVE Replay(_, _, _)
Replay(c, r, callbacks) ==
    IF callbacks = <<>> THEN c
    ELSE Replay(completion(c, r, Head(callbacks).plugin, Head(callbacks).args[1]),
                r, Tail(callbacks))

Alone(r) ==
    Replay(chained(NewChain(chain.n), r), r,
           Events(chain.history[r], "callback")).history[r]

\* C30. Two invocations of a chained function that are under way at the same
\* time do not interfere: each does what it does alone, invokes the plugins in
\* the order of the arguments with its own arguments and, once its plugins
\* have all called back, has invoked every plugin exactly once and called its
\* done exactly once.
C30_InvocationsIndependent ==
    \A r \in Runs :
      /\ chain.history[r] # <<>> => chain.history[r] = Alone(r)
      /\ InOrder(r)
      /\ Quiet(r) =>
           /\ Len(Events(chain.history[r], "invoke")) = chain.n
           /\ Len(Events(chain.history[r], "done")) = 1

\* The second invocation ran through two plugins while the first plugin of
\* the first invocation was still pending.
C30_Witness ==
    /\ chain.n = 2
    /\ Len(chain.history[1]) = 1 /\ IsInvoke(chain.history[1], 1, 1)
    /\ Quiet(2)
    /\ Len(Events(chain.history[2], "done")) = 1

\* ----------------------------------------------------------- C26, C27, C28
\* The step is the one that runs the each phase.
EachPhaseRuns == ~EachPhaseRan /\ EachPhaseRan'

\* The entries of the array stand for the same invocations as before the
\* step: none is added, dropped or turned into a skipped one.
SameInvocations ==
    /\ Len(promises') = Len(promises)
    /\ \A i \in 1..Len(promises) :
         /\ promises'[i].filename = promises[i].filename
         /\ promises'[i].present = promises[i].present
         /\ EachCalled(i)' = EachCalled(i)

\* C26. The step that runs the each phase starts the invocation of every
\* matched key whose record is there at its turn, whether the invocations
\* before it have completed or not, and only then waits for them all: every
\* one of them can be pending at the same time. Which files were processed is
\* settled in that step, whatever the order in which the invocations complete.
C26_AllStartedBeforeAnyAwaited ==
    /\ [][EachPhaseRuns =>
            LET keys == matchedKeys(files)
            IN /\ Len(promises') = Len(keys)
               /\ \A i \in 1..Len(keys) :
                    /\ promises'[i].filename = keys[i]
                    /\ promises'[i].present =>
                         /\ EachCalled(i)'
                         /\ calls'.each[keys[i]] = 1
               /\ Len(keys) > 0 =>
                    /\ allResult'.st = "pending"
                    /\ allResult'.remaining = Len(keys)]_vars
    /\ [][EachPhaseRan => (SameInvocations /\ calls'.each = calls.each)]_vars

\* As many invocations as there are filenames are pending at the same time.
C26_Witness ==
    /\ Len(promises) = NumFiles
    /\ \A i \in 1..Len(promises) : promises[i].st = "pending"
    /\ \A f \in Names : calls.each[f] = 1

\* C27. An each invocation that fails, by a throw, a rejection or a callback
\* error, keeps no later key from having its invocation started, and the
\* invocations that are pending stay what they are until they settle on
\* their own; after is not invoked.
C27_FailureStopsNoInvocation ==
    /\ [][EachPhaseRuns =>
            LET keys == matchedKeys(files)
            IN \A j \in 1..Len(keys) :
                 (\E i \in 1..(j - 1) :
                     i <= Len(promises') /\ promises'[i].st = "rejected")
                   => /\ j <= Len(promises')
                      /\ promises'[j].filename = keys[j]
                      /\ promises'[j].present => EachCalled(j)']_vars
    /\ [][SomeEachFailed =>
            /\ SameInvocations
            /\ \A i \in 1..Len(promises) :
                 promises'[i] # promises[i] =>
                   /\ promises[i].st = "pending"
                   /\ promises'[i].st \in {"fulfilled", "rejected", "hung"}]_vars
    /\ [](SomeEachFailed => calls.after = 0)

\* The first invocation failed and done was called with its error; a later
\* invocation, pending at that time, has fulfilled since.
C27_Witness ==
    /\ promises # <<>> /\ promises[1].st = "rejected"
    /\ doneCalls = <<promises[1].v>>
    /\ calls.after = 0
    /\ \E j \in 2..Len(promises) :
         /\ promises[j].st = "fulfilled"
         /\ microtasks = <<Element(j)>>

\* The filenames of the entries of the array.
Considered == {promises[i].filename : i \in 1..Len(promises)}

C29_DefinitionFixedAtCreation ==
    creation.invoked => creation.used = creation.fixed

\* The caller replaced a hook of the definition and changed its matchOptions
\* mapping, and the middleware function was invoked after that.
C29_Witness ==
    /\ creation.invoked
    /\ creation.used = creation.fixed
    /\ \E k \in Keys :
         /\ Properties[creation.names[k]] \in Hooks
         /\ IsRef(creation.fixed.hooks[k])
         /\ creation.heap[creation.definition[2]].props[k] = Number(0)
    /\ IsRef(Option(creation.heap, creation.definition, creation.names,
                    "matchOptions"))
    /\ creation.fixed.matchOptions = Full("object", NumberT(1))
    /\ Content(creation.heap, Option(creation.heap, creation.definition,
                                     creation.names, "matchOptions"))
         # creation.fixed.matchOptions

====
